---- MODULE Spec2Model ----
(***************************************************************************)
(* Model of the benchmark orchestration scripts under src/scalability:     *)
(*   - the Flamegraph metric collector (flamegraphs.py),                   *)
(*   - the driver loop of flamegraphs.py's main block,                     *)
(*   - the batched install loop of run_many_canisters_experiment.py.       *)
(* The modules ssh, metrics and experiment are not part of the sources at  *)
(* hand; what the collector needs of them is modelled at their boundary.   *)
(***************************************************************************)
EXTENDS Integers, Sequences, FiniteSets, TLC

\* ------------------------------------------------------------------ bounds
\* Size of the fleet of target machines.
NumMachines == 2
\* Number of detached profiler processes a collector may start in Spec.
MaxHandles == 2

Machines == 1..NumMachines

VARIABLES
    no_flamegraphs,   \* FLAGS.no_flamegraphs
    target,           \* self.target
    do_instrument,    \* self.do_instrument
    flamegraph_pid,   \* self.flamegraph_pid: <<>> while the attribute is unset, else <<h>>
    procs,            \* detached processes started by run_ssh_with_t, by handle id
    installed,        \* machines whose home directory holds the flamegraph binary
    svg,              \* /tmp/flamegraph.svg on the target: 0 absent, else the handle that wrote it
    last,             \* the most recent call on the collector and what it issued
    prev,             \* the call before it
    \* flamegraphs.py, main block
    pc,               \* the statement the main thread is at
    i,                \* the loop variable of "for i in range(10)"
    th,               \* the workload thread of the pass: "unstarted", "running", "finished"
    th_i,             \* the loop variable of the thread's function
    \* run_many_canisters_experiment.py
    batchsize,        \* FLAGS.batchsize
    mpc,              \* the statement run_experiment_internal is at
    mi,               \* its loop variable i
    p,                \* the list p of install handles of the pass
    pos,              \* the position of "for process in p"
    num_canisters,    \* self.num_canisters
    base,             \* the count read at construction
    succeeded,        \* install commands that have exited with status 0
    unwaited,         \* handles launched and not yet waited on
    passes,           \* the values of i of the passes begun, in order
    \* files on the controller
    tasks,            \* collector tasks: iteration output directory, target, progress
    written,          \* local files opened for writing: path, task, kind
    \* Ci.get_last_hourly_jobs
    project_jobs,     \* the project's completed jobs, by id descending
    page_size,
    page,
    new_jobs,         \* the page last listed
    job_pos,          \* position of the for loop in new_jobs
    jobs,             \* the list being collected
    ci_pc,            \* "idle", "list", "for", "returned"
    \* create_and_export_spans
    children,         \* the test-result tree: node -> its children, in order
    args_parent_id,   \* --parent_id
    stack,            \* the calls of create_and_export_spans in progress
    spans             \* the events sent, in order

collector_vars == <<no_flamegraphs, target, do_instrument, flamegraph_pid, procs,
                    installed, svg, last>>

main_vars == <<pc, i, th, th_i>>

many_vars == <<batchsize, mpc, mi, p, pos, num_canisters, base, succeeded, unwaited,
               passes>>

path_vars == <<tasks, written>>

ci_vars == <<project_jobs, page_size, page, new_jobs, job_pos, jobs, ci_pc>>

span_vars == <<children, args_parent_id, stack, spans>>

aux_vars == <<path_vars, ci_vars, span_vars>>

vars == <<collector_vars, prev, main_vars, many_vars, aux_vars>>

\* ------------------------------------------------------- remote operations
\* One remote operation as issued through the ssh module: the function
\* called, the command, the machines addressed, the handle involved (0: none)
\* and, where the code reads the status, the machines on which it returned
\* a non-zero one.
Cmd(fn, cmd, to, h, bad) ==
    [fn |-> fn, cmd |-> cmd, to |-> to, h |-> h, bad |-> bad]

\* The functions that issue a remote command, a detached process or a transfer.
RemoteFns == {"run_ssh", "run_ssh_with_t", "run_ssh_in_parallel", "scp_file",
              "scp_in_parallel"}

\* "stat flamegraph" fails exactly on the machines without the binary.
ProbeBad(machines, inst) == machines \ inst

\* A call on the collector: its name, the machines passed, the operations it
\* issued in order, whether it raised, what it returned ("None" or "list",
\* with the machines whose status in the list is non-zero) and the artifact
\* that end_iteration fetched (0: none).
Call(op, machines, cmds, raised, returned, bad, pulled) ==
    [op |-> op, machines |-> machines, cmds |-> cmds, raised |-> raised,
     returned |-> returned, bad |-> bad, pulled |-> pulled]

NoCall == Call("new", {}, <<>>, FALSE, "None", {}, 0)

\* ------------------------------------------------------ install_flamegraph
\* install_cmds with the probe's answer ignored: remediation on every call.
install_cmds_always(do_instr, machines, probeBad, pushBad) ==
    IF ~do_instr THEN <<>>
    ELSE <<Cmd("run_ssh_in_parallel", "stat flamegraph", machines, 0, probeBad),
           Cmd("run_ssh_in_parallel", "perf_event_paranoid", machines, 0, {}),
           Cmd("run_ssh_in_parallel", "apt install", machines, 0, {}),
           Cmd("scp_in_parallel", "push flamegraph", machines, 0, pushBad)>>

\* The operations install_flamegraph issues, in order. The statuses of the
\* two preparation commands are discarded by the code.
install_cmds(do_instr, machines, probeBad, pushBad) ==
    IF ~do_instr THEN <<>>
    ELSE IF probeBad # {}
    THEN <<Cmd("run_ssh_in_parallel", "stat flamegraph", machines, 0, probeBad),
           Cmd("run_ssh_in_parallel", "perf_event_paranoid", machines, 0, {}),
           Cmd("run_ssh_in_parallel", "apt install", machines, 0, {}),
           Cmd("scp_in_parallel", "push flamegraph", machines, 0, pushBad)>>
    ELSE <<Cmd("run_ssh_in_parallel", "stat flamegraph", machines, 0, probeBad)>>

\* The call record of install_flamegraph(machines), under the name op: it
\* returns None when disabled, else the statuses of the push or of the probe.
install_call(op, do_instr, machines, probeBad, pushBad) ==
    LET cmds == install_cmds(do_instr, machines, probeBad, pushBad)
    IN  IF ~do_instr THEN Call(op, machines, cmds, FALSE, "None", {}, 0)
        ELSE IF probeBad # {}
        THEN Call(op, machines, cmds, FALSE, "list", pushBad, 0)
        ELSE Call(op, machines, cmds, FALSE, "list", probeBad, 0)

\* The binary is in place where it was, and where a push was issued and succeeded.
install_remote(cmds, inst) ==
    inst \cup UNION {cmds[k].to \ cmds[k].bad :
                       k \in {j \in DOMAIN cmds : cmds[j].fn = "scp_in_parallel"}}

\* The statuses a push to machines may return: chosen only when a push is due.
PushOutcomes(do_instr, machines, probeBad) ==
    IF do_instr /\ probeBad # {} THEN SUBSET machines ELSE {{}}

install_flamegraph ==
    \E machines \in SUBSET Machines :
    \E pushBad \in PushOutcomes(do_instrument, machines, ProbeBad(machines, installed)) :
        LET c == install_call("install_flamegraph", do_instrument, machines,
                              ProbeBad(machines, installed), pushBad)
        IN  /\ last' = c
            /\ installed' = install_remote(c.cmds, installed)
            /\ UNCHANGED <<no_flamegraphs, target, do_instrument, flamegraph_pid,
                           procs, svg>>

\* ------------------------------------------------------------------- init
\* init discards what install_flamegraph returns.
init ==
    IF no_flamegraphs
    THEN /\ do_instrument' = FALSE
         /\ last' = Call("init", {}, <<>>, FALSE, "None", {}, 0)
         /\ UNCHANGED <<no_flamegraphs, target, flamegraph_pid, procs, installed, svg>>
    ELSE \E pushBad \in PushOutcomes(do_instrument, {target},
                                     ProbeBad({target}, installed)) :
            LET c == install_call("init", do_instrument, {target},
                                  ProbeBad({target}, installed), pushBad)
            IN  /\ last' = [c EXCEPT !.returned = "None", !.bad = {}]
                /\ installed' = install_remote(c.cmds, installed)
                /\ UNCHANGED <<no_flamegraphs, target, do_instrument,
                               flamegraph_pid, procs, svg>>

\* --------------------------------------------------------- start_iteration
\* What becomes of the detached command of start_iteration on the target:
\*   "nostart"   the command did not get to run: nothing is cleared,
\*   "failed"    prior output was cleared, the profiler did not come up,
\*   "profiling" prior output was cleared, perf is sampling (needs the binary).
StartOutcomes(hasBinary) ==
    {"nostart", "failed"} \cup (IF hasBinary THEN {"profiling"} ELSE {})

\* start_cmds without the do_instrument guard.
start_cmds_unguarded(do_instr, tgt, h) ==
    <<Cmd("run_ssh_with_t", "rm svg; flamegraph -p replica", {tgt}, h, {})>>

\* The operations start_iteration issues, h being the handle it obtains.
start_cmds(do_instr, tgt, h) ==
    IF ~do_instr THEN <<>>
    ELSE <<Cmd("run_ssh_with_t", "rm svg; flamegraph -p replica", {tgt}, h, {})>>

start_iteration ==
    IF ~do_instrument
    THEN /\ last' = Call("start_iteration", {}, start_cmds(do_instrument, target, 0),
                         FALSE, "None", {}, 0)
         /\ UNCHANGED <<no_flamegraphs, target, do_instrument, flamegraph_pid,
                        procs, installed, svg>>
    ELSE /\ \E outcome \in StartOutcomes(target \in installed) :
              LET h == Len(procs) + 1
              IN  /\ procs' = Append(procs,
                        [state |-> IF outcome = "profiling" THEN "running" ELSE "exited",
                         waits |-> 0])
                  /\ svg' = IF outcome = "nostart" THEN svg ELSE 0
                  /\ flamegraph_pid' = <<h>>
                  /\ last' = Call("start_iteration", {}, start_cmds(do_instrument, target, h),
                                  FALSE, "None", {}, 0)
         /\ UNCHANGED <<no_flamegraphs, target, do_instrument, installed>>

\* ----------------------------------------------------------- end_iteration
\* How often a handle has been waited on: 0, 1, or 2 for twice or more.
Waited(n) == IF n = 0 THEN 1 ELSE 2

\* The profilers sampling on the target.
Sampling(ps) == {h \in DOMAIN ps : ps[h].state = "running"}

\* end_cmds with the artifact pulled before the profiler has been waited for.
end_cmds_pull_first(do_instr, tgt, pid, pullBad) ==
    IF ~do_instr THEN <<>>
    ELSE IF pid = <<>>
    THEN <<Cmd("run_ssh", "kill perf", {tgt}, 0, {})>>
    ELSE <<Cmd("run_ssh", "kill perf", {tgt}, 0, {}),
           Cmd("scp_file", "pull flamegraph.svg", {tgt}, 0, pullBad),
           Cmd("wait", "flamegraph_pid", {tgt}, pid[1], {})>>

\* The operations end_iteration issues, in order: pid is self.flamegraph_pid.
end_cmds(do_instr, tgt, pid, pullBad) ==
    IF ~do_instr THEN <<>>
    ELSE IF pid = <<>>
    THEN <<Cmd("run_ssh", "kill perf", {tgt}, 0, {})>>
    ELSE <<Cmd("run_ssh", "kill perf", {tgt}, 0, {}),
           Cmd("wait", "flamegraph_pid", {tgt}, pid[1], {}),
           Cmd("scp_file", "pull flamegraph.svg", {tgt}, 0, pullBad)>>

\* end_raises with a failed pull raised instead of logged.
end_raises_on_failed_pull(do_instr, pid, pullBad) ==
    do_instr /\ (pid = <<>> \/ pullBad # {})

\* Whether end_iteration raises: only the read of an unset flamegraph_pid does.
end_raises(do_instr, pid, pullBad) ==
    do_instr /\ pid = <<>>

\* "kill $(pidof perf)" ends every profiler sampling on the target; each one
\* then renders /tmp/flamegraph.svg (or fails to) and its ssh process exits.
end_iteration ==
    IF ~do_instrument
    THEN /\ last' = Call("end_iteration", {},
                         end_cmds(do_instrument, target, flamegraph_pid, {}),
                         end_raises(do_instrument, flamegraph_pid, {}), "None", {}, 0)
         /\ UNCHANGED <<no_flamegraphs, target, do_instrument, flamegraph_pid,
                        procs, installed, svg>>
    ELSE     /\ svg' \in Sampling(procs) \cup {svg}
             /\ procs' = [h \in DOMAIN procs |->
                            [state |-> "exited",
                             waits |-> IF flamegraph_pid = <<h>>
                                       THEN Waited(procs[h].waits) ELSE procs[h].waits]]
             /\ \E pullBad \in SUBSET {target} :
                  /\ (svg' = 0 \/ flamegraph_pid = <<>>) => pullBad = {target}
                  /\ last' = Call("end_iteration", {},
                                  end_cmds(do_instrument, target, flamegraph_pid, pullBad),
                                  end_raises(do_instrument, flamegraph_pid, pullBad),
                                  "None", {},
                                  IF pullBad = {} THEN svg' ELSE 0)
             /\ UNCHANGED <<no_flamegraphs, target, do_instrument, flamegraph_pid,
                            installed>>

\* ---------------------------------------------------------- specification
\* The main block and the install loop at rest, while the collector is
\* driven call by call.
MainIdle == pc = "none" /\ i = 0 /\ th = "unstarted" /\ th_i = 0

PathsIdle == tasks = <<>> /\ written = {}

CiIdle ==
    /\ project_jobs = <<>> /\ page_size = 1 /\ page = 1 /\ new_jobs = <<>>
    /\ job_pos = 1 /\ jobs = <<>> /\ ci_pc = "idle"

SpansIdle ==
    children = <<>> /\ args_parent_id = 0 /\ stack = <<>> /\ spans = <<>>

AuxIdle == PathsIdle /\ CiIdle /\ SpansIdle

ManyIdle ==
    /\ batchsize = 1 /\ mpc = "none" /\ mi = 0 /\ p = <<>> /\ pos = 1
    /\ num_canisters = 0 /\ base = 0 /\ succeeded = 0 /\ unwaited = 0
    /\ passes = <<>>

\* A collector as constructed, before any call: do_instrument is what the
\* constructor was given.
Init ==
    /\ no_flamegraphs \in BOOLEAN
    /\ target \in Machines
    /\ do_instrument \in BOOLEAN
    /\ flamegraph_pid = <<>>
    /\ procs = <<>>
    /\ installed \in SUBSET Machines
    /\ svg = 0
    /\ last = NoCall
    /\ prev = NoCall
    /\ MainIdle
    /\ ManyIdle
    /\ AuxIdle

\* The lifecycle calls of one collector, in any order; a collector starts at
\* most MaxHandles profilers.
Next ==
    \/ init /\ UNCHANGED <<prev, main_vars, many_vars, aux_vars>>
    \/ install_flamegraph /\ UNCHANGED <<prev, main_vars, many_vars, aux_vars>>
    \/ /\ do_instrument => Len(procs) < MaxHandles
       /\ start_iteration
       /\ UNCHANGED <<prev, main_vars, many_vars, aux_vars>>
    \/ end_iteration /\ UNCHANGED <<prev, main_vars, many_vars, aux_vars>>

Spec == Init /\ [][Next]_vars

\* The bootstrap alone, remembering the call before the last one.
NextBootstrap ==
    \/ init /\ prev' = last /\ UNCHANGED <<main_vars, many_vars, aux_vars>>
    \/ install_flamegraph /\ prev' = last /\ UNCHANGED <<main_vars, many_vars, aux_vars>>

SpecBootstrap == Init /\ [][NextBootstrap]_vars

\* ------------------------------------------------- flamegraphs.py, main block
\* Passes of the driver loop: range(10).
MainPasses == 10
\* Rounds of the workload thread: range(50).
ThreadRounds == 50

\* do_instrument of a collector constructed without that argument.
Metric_do_instrument == TRUE

\* The argument list ["echo", "hello", i] handed to subprocess.run.
Argv(n) == <<[type |-> "str"], [type |-> "str"], [type |-> "int"]>>

\* subprocess.run accepts an argument list of strings only; it raises
\* TypeError on any other.
subprocess_run_raises(argv) == \E k \in DOMAIN argv : argv[k].type # "str"

\* for i in range(10): the next pass, or the end of the block.
main_for ==
    /\ pc = "for"
    /\ IF i < MainPasses THEN pc' = "th_start" ELSE pc' = "done"
    /\ UNCHANGED <<i, th, th_i, collector_vars>>

\* th = threading.Thread(target=thread); th.start()
main_th_start ==
    /\ pc = "th_start"
    /\ th' = "running"
    /\ th_i' = 0
    /\ pc' = "new"
    /\ UNCHANGED <<i, collector_vars>>

\* m = Flamegraph("flamegraph", exp.target)
main_new ==
    /\ pc = "new"
    /\ do_instrument' = Metric_do_instrument
    /\ flamegraph_pid' = <<>>
    /\ last' = NoCall
    /\ pc' = "init"
    /\ UNCHANGED <<i, th, th_i, no_flamegraphs, target, procs, installed, svg>>

\* m.init()
main_init ==
    /\ pc = "init"
    /\ init
    /\ pc' = "start"
    /\ UNCHANGED <<i, th, th_i>>

\* m.start_iteration("/tmp")
main_start_iteration ==
    /\ pc = "start"
    /\ start_iteration
    /\ pc' = "sleep"
    /\ UNCHANGED <<i, th, th_i>>

\* time.sleep(500)
main_sleep ==
    /\ pc = "sleep"
    /\ pc' = "end"
    /\ UNCHANGED <<i, th, th_i, collector_vars>>

\* m.end_iteration(exp)
main_end_iteration ==
    /\ pc = "end"
    /\ end_iteration
    /\ pc' = "join"
    /\ UNCHANGED <<i, th, th_i>>

\* th.join(): returns once the thread has finished; then the next pass.
main_join ==
    /\ pc = "join"
    /\ th = "finished"
    /\ th' = "unstarted"
    /\ i' = i + 1
    /\ pc' = "for"
    /\ UNCHANGED <<th_i, collector_vars>>

\* One round of the thread's function: subprocess.run(["echo", "hello", i]),
\* then time.sleep(10). An exception ends the thread.
thread ==
    /\ th = "running"
    /\ IF subprocess_run_raises(Argv(th_i))
       THEN th' = "finished" /\ th_i' = th_i
       ELSE /\ th_i' = th_i + 1
            /\ th' = IF th_i + 1 < ThreadRounds THEN "running" ELSE "finished"
    /\ UNCHANGED <<pc, i, collector_vars>>

InitMain ==
    /\ no_flamegraphs \in BOOLEAN
    /\ target \in Machines
    /\ do_instrument = Metric_do_instrument
    /\ flamegraph_pid = <<>>
    /\ procs = <<>>
    /\ installed \in SUBSET Machines
    /\ svg = 0
    /\ last = NoCall
    /\ prev = NoCall
    /\ pc = "for" /\ i = 0 /\ th = "unstarted" /\ th_i = 0
    /\ ManyIdle
    /\ AuxIdle

NextMain ==
    \/ main_for /\ UNCHANGED <<prev, many_vars, aux_vars>>
    \/ main_th_start /\ UNCHANGED <<prev, many_vars, aux_vars>>
    \/ main_new /\ UNCHANGED <<prev, many_vars, aux_vars>>
    \/ main_init /\ UNCHANGED <<prev, many_vars, aux_vars>>
    \/ main_start_iteration /\ UNCHANGED <<prev, many_vars, aux_vars>>
    \/ main_sleep /\ UNCHANGED <<prev, many_vars, aux_vars>>
    \/ main_end_iteration /\ UNCHANGED <<prev, many_vars, aux_vars>>
    \/ main_join /\ UNCHANGED <<prev, many_vars, aux_vars>>
    \/ thread /\ UNCHANGED <<prev, many_vars, aux_vars>>

SpecMain == InitMain /\ [][NextMain]_vars

\* ------------------------------------ run_many_canisters_experiment.py
\* Stands for the 50000 canisters of run_experiment_internal, scaled down.
TotalCanisters == 5
\* Largest value of FLAGS.batchsize.
MaxBatch == 3
\* Largest canister count read from the subnetwork at construction.
MaxInitial == 1

\* iteration_max = int(math.ceil(50000 / FLAGS.batchsize))
iteration_max(b) == (TotalCanisters + b - 1) \div b

\* The loop ends on a failed install instead of running the whole plan.
loop_continues_while_ok(n, b, handles) ==
    /\ n < iteration_max(b)
    /\ \A h \in DOMAIN handles : handles[h].status = 0

\* for i in range(iteration_max): whether there is a pass for i = n, handles
\* being the list p the pass before left.
loop_continues(n, b, handles) == n < iteration_max(b)

\* The wait loop stops one handle short.
wait_loop_last_skips_one(handles) == Len(handles) - 1

\* for process in p: the position of the last handle the loop visits.
wait_loop_last(handles) == Len(handles)

\* for i in range(iteration_max), then lines 72-82: the queries, the print
\* and p = [].
many_for ==
    /\ mpc = "for"
    /\ IF loop_continues(mi, batchsize, p)
       THEN /\ passes' = Append(passes, mi)
            /\ p' = <<>>
            /\ mpc' = "launch"
       ELSE /\ mpc' = "done"
            /\ UNCHANGED <<passes, p>>
    /\ UNCHANGED <<batchsize, mi, pos, num_canisters, base, succeeded, unwaited>>

\* for _ in range(FLAGS.batchsize): p.append(install_canister_nonblocking(..))
many_launch ==
    /\ mpc = "launch"
    /\ IF Len(p) < batchsize
       THEN /\ p' = Append(p, [state |-> "running", status |-> 0, waits |-> 0])
            /\ unwaited' = unwaited + 1
            /\ UNCHANGED <<mpc, pos>>
       ELSE /\ mpc' = "wait"
            /\ pos' = 1
            /\ UNCHANGED <<p, unwaited>>
    /\ UNCHANGED <<batchsize, mi, num_canisters, base, succeeded, passes>>

\* A detached install command exits, with status 0 or not.
install_exits ==
    /\ \E h \in DOMAIN p, st \in {0, 1} :
         /\ p[h].state = "running"
         /\ p' = [p EXCEPT ![h] = [state |-> "exited", status |-> st,
                                    waits |-> p[h].waits]]
         /\ succeeded' = IF st = 0 THEN succeeded + 1 ELSE succeeded
    /\ UNCHANGED <<batchsize, mpc, mi, pos, num_canisters, base, unwaited, passes>>

\* for process in p: process.wait(), which returns once the process has
\* exited; its status is discarded.
many_wait ==
    /\ mpc = "wait"
    /\ IF pos <= wait_loop_last(p)
       THEN /\ p[pos].state = "exited"
            /\ p' = [p EXCEPT ![pos].waits = Waited(p[pos].waits)]
            /\ unwaited' = IF p[pos].waits = 0 THEN unwaited - 1 ELSE unwaited
            /\ pos' = pos + 1
            /\ UNCHANGED mpc
       ELSE /\ mpc' = "update"
            /\ UNCHANGED <<p, unwaited, pos>>
    /\ UNCHANGED <<batchsize, mi, num_canisters, base, succeeded, passes>>

\* self.num_canisters += FLAGS.batchsize, the print, and the next i.
many_update ==
    /\ mpc = "update"
    /\ num_canisters' = num_canisters + batchsize
    /\ mi' = mi + 1
    /\ mpc' = "for"
    /\ UNCHANGED <<batchsize, p, pos, base, succeeded, unwaited, passes>>

\* The experiment as constructed: self.num_canisters is the count read from
\* the subnetwork; FLAGS.batchsize is a positive number of installs.
InitMany ==
    /\ no_flamegraphs = FALSE
    /\ target \in Machines
    /\ do_instrument = Metric_do_instrument
    /\ flamegraph_pid = <<>>
    /\ procs = <<>>
    /\ installed = {}
    /\ svg = 0
    /\ last = NoCall
    /\ prev = NoCall
    /\ MainIdle
    /\ AuxIdle
    /\ batchsize \in 1..MaxBatch
    /\ base \in 0..MaxInitial
    /\ num_canisters = base
    /\ mpc = "for" /\ mi = 0 /\ p = <<>> /\ pos = 1
    /\ succeeded = 0 /\ unwaited = 0 /\ passes = <<>>

NextMany ==
    \/ many_for /\ UNCHANGED <<collector_vars, prev, main_vars, aux_vars>>
    \/ many_launch /\ UNCHANGED <<collector_vars, prev, main_vars, aux_vars>>
    \/ install_exits /\ UNCHANGED <<collector_vars, prev, main_vars, aux_vars>>
    \/ many_wait /\ UNCHANGED <<collector_vars, prev, main_vars, aux_vars>>
    \/ many_update /\ UNCHANGED <<collector_vars, prev, main_vars, aux_vars>>

SpecMany == InitMany /\ [][NextMany]_vars

\* ------------------------------------------------- files on the controller
\* Strings are sequences of characters. Longest directory name and longest
\* target address drawn.
MaxDirLen == 2
MaxTargetLen == 1

\* Characters of directory names and of target addresses (no "/" in these).
DirChars == {"a", "/"}
TargetChars == {"a", ":"}

\* The non-empty strings over chars of at most n characters.
Strings(chars, n) == UNION {[1..m -> chars] : m \in 1..n}

\* os.path.join(a, b) for two components.
os_path_join(a, b) ==
    IF b # <<>> /\ b[1] = "/" THEN b
    ELSE IF a = <<>> \/ a[Len(a)] = "/" THEN a \o b
    ELSE a \o <<"/">> \o b

\* "flamegraph-{}.stdout.log".format(self.target)
stdout_log(tgt) ==
    <<"f", "l", "a", "m", "e", "g", "r", "a", "p", "h", "-">> \o tgt
        \o <<".", "s", "t", "d", "o", "u", "t", ".", "l", "o", "g">>

\* stderr_log naming the file of the other stream.
stderr_log_as_stdout(tgt) == stdout_log(tgt)

\* "flamegraph-{}.stderr.log".format(self.target)
stderr_log(tgt) ==
    <<"f", "l", "a", "m", "e", "g", "r", "a", "p", "h", "-">> \o tgt
        \o <<".", "s", "t", "d", "e", "r", "r", ".", "l", "o", "g">>

\* f"{exp.iter_outdir}/flamegraph_{self.target}.svg"
svg_path(outdir, tgt) ==
    outdir \o <<"/">> \o <<"f", "l", "a", "m", "e", "g", "r", "a", "p", "h", "_">>
        \o tgt \o <<".", "s", "v", "g">>

\* The file a path names: runs of "/" count as one, and a trailing "/" does
\* not count, as the file system resolves them.
RECURSIVE SqueezeSlashes(_)
SqueezeSlashes(s) ==
    IF Len(s) <= 1 THEN s
    ELSE IF s[1] = "/" /\ s[2] = "/" THEN SqueezeSlashes(Tail(s))
    ELSE <<s[1]>> \o SqueezeSlashes(Tail(s))

FileOf(s) ==
    LET q == SqueezeSlashes(s)
    IN  IF Len(q) > 1 /\ q[Len(q)] = "/" THEN SubSeq(q, 1, Len(q) - 1) ELSE q

\* start_iteration opens the two log files of the detached command.
paths_start_iteration ==
    \E t \in DOMAIN tasks :
        /\ tasks[t].stage = "idle"
        /\ tasks' = [tasks EXCEPT ![t].stage = "running"]
        /\ written' = written \cup
              {[path |-> os_path_join(tasks[t].outdir, stdout_log(tasks[t].target)),
                by |-> t, kind |-> "stdout"],
               [path |-> os_path_join(tasks[t].outdir, stderr_log(tasks[t].target)),
                by |-> t, kind |-> "stderr"]}

\* end_iteration pulls the artifact into the iteration's output directory.
paths_end_iteration ==
    \E t \in DOMAIN tasks :
        /\ tasks[t].stage = "running"
        /\ tasks' = [tasks EXCEPT ![t].stage = "ended"]
        /\ written' = written \cup
              {[path |-> svg_path(tasks[t].outdir, tasks[t].target),
                by |-> t, kind |-> "svg"]}

\* Two collector tasks, each with the output directory of its iteration and
\* its target.
InitPaths ==
    /\ no_flamegraphs = FALSE
    /\ target = 1
    /\ do_instrument = Metric_do_instrument
    /\ flamegraph_pid = <<>>
    /\ procs = <<>>
    /\ installed = {}
    /\ svg = 0
    /\ last = NoCall
    /\ prev = NoCall
    /\ MainIdle
    /\ ManyIdle
    /\ tasks \in [1..2 -> [outdir : Strings(DirChars, MaxDirLen),
                           target : Strings(TargetChars, MaxTargetLen),
                           stage : {"idle"}]]
    /\ written = {}
    /\ CiIdle
    /\ SpansIdle

NextPaths ==
    \/ paths_start_iteration /\ UNCHANGED <<collector_vars, prev, main_vars, many_vars, ci_vars, span_vars>>
    \/ paths_end_iteration /\ UNCHANGED <<collector_vars, prev, main_vars, many_vars, ci_vars, span_vars>>

SpecPaths == InitPaths /\ [][NextPaths]_vars

\* -------------------------------------------------- Ci.get_last_hourly_jobs
\* Most jobs the project holds, and largest page size drawn.
MaxJobs == 3
MaxPageSize == 2

_MONITORED_JOB_TYPES ==
    {"rosetta-hourly", "system-tests-hourly", "system-tests-nightly",
     "wasm-generator-hourly", "wasm-generator-nightly"}

\* Times are minutes. datetime.now(pytz.utc) at the call.
now == 100

\* timedelta(hours=1, minutes=5)
cutoff == 65

\* Job names, tag lists and creation times drawn: a monitored and another
\* name, with and without the tag, created 65 and 66 minutes before the call.
JobNames == {"system-tests-hourly", "docker-build-ic"}
TagLists == {{"ic-prod-tests"}, {"docker"}}
CreatedAts == {now - cutoff, now - cutoff - 1}

Jobs == [name : JobNames, tag_list : TagLists, created_at : CreatedAts]

\* Ci.job_ts(job)
job_ts(job) == job.created_at

\* self.project.jobs.list(per_page=n, page=pg, order_by="id", sort="desc")
jobs_list(n, pg) ==
    SubSeq(project_jobs, (pg - 1) * n + 1,
           IF pg * n < Len(project_jobs) THEN pg * n ELSE Len(project_jobs))

\* The job is one the caller collects.
collected(job) ==
    job.name \in _MONITORED_JOB_TYPES /\ "ic-prod-tests" \in job.tag_list

\* The job was created before the window.
too_old(job) == now - job_ts(job) > cutoff

\* new_jobs = self.project.jobs.list(...)
ci_list ==
    /\ ci_pc = "list"
    /\ new_jobs' = jobs_list(page_size, page)
    /\ job_pos' = 1
    /\ ci_pc' = "for"
    /\ UNCHANGED <<project_jobs, page_size, page, jobs>>

\* One pass of the body of "for job in new_jobs".
ci_for ==
    /\ ci_pc = "for"
    /\ job_pos <= Len(new_jobs)
    /\ LET job == new_jobs[job_pos]
       IN  /\ jobs' = IF collected(job) THEN Append(jobs, job) ELSE jobs
           /\ IF too_old(job)
              THEN ci_pc' = "returned" /\ job_pos' = job_pos
              ELSE ci_pc' = "for" /\ job_pos' = job_pos + 1
    /\ UNCHANGED <<project_jobs, page_size, page, new_jobs>>

\* The for loop is over: page += 1, and return if the page was empty.
ci_page_done ==
    /\ ci_pc = "for"
    /\ job_pos > Len(new_jobs)
    /\ page' = page + 1
    /\ ci_pc' = IF new_jobs = <<>> THEN "returned" ELSE "list"
    /\ UNCHANGED <<project_jobs, page_size, new_jobs, job_pos, jobs>>

\* A call of get_last_hourly_jobs on a project with some completed jobs.
InitCi ==
    /\ no_flamegraphs = FALSE
    /\ target = 1
    /\ do_instrument = Metric_do_instrument
    /\ flamegraph_pid = <<>>
    /\ procs = <<>>
    /\ installed = {}
    /\ svg = 0
    /\ last = NoCall
    /\ prev = NoCall
    /\ MainIdle
    /\ ManyIdle
    /\ PathsIdle
    /\ project_jobs \in UNION {[1..n -> Jobs] : n \in 0..MaxJobs}
    /\ page_size \in 1..MaxPageSize
    /\ page = 1
    /\ new_jobs = <<>>
    /\ job_pos = 1
    /\ jobs = <<>>
    /\ ci_pc = "list"
    /\ SpansIdle

NextCi ==
    \/ ci_list /\ UNCHANGED <<collector_vars, prev, main_vars, many_vars, path_vars, span_vars>>
    \/ ci_for /\ UNCHANGED <<collector_vars, prev, main_vars, many_vars, path_vars, span_vars>>
    \/ ci_page_done /\ UNCHANGED <<collector_vars, prev, main_vars, many_vars, path_vars, span_vars>>

SpecCi == InitCi /\ [][NextCi]_vars

\* -------------------------------------------------- create_and_export_spans
\* Most nodes of a test-result tree, and number of values secrets.token_hex
\* is drawn from (two spans may draw the same one).
MaxNodes == 4
NumIds == 2

SpanIds == 1..NumIds

\* The elements of a set of numbers, ascending.
RECURSIVE Ascending(_)
Ascending(S) ==
    IF S = {} THEN <<>>
    ELSE LET least == CHOOSE a \in S : \A b \in S : a <= b
         IN  <<least>> \o Ascending(S \ {least})

\* The trees of n nodes with root 1: up is the parent of each other node.
Trees(n) ==
    {[c \in 1..n |-> Ascending({d \in 2..n : up[d] = c})] :
        up \in {f \in [2..n -> 1..n] : \A d \in 2..n : f[d] < d}}

Frame(node, parent_id, depth) ==
    [node |-> node, parent_id |-> parent_id, depth |-> depth,
     parent_span_id |-> 0, ch |-> 0]

\* The parent_id a child is given is its grandparent's span.
child_parent_id_of_caller(frame) == frame.parent_id

\* create_and_export_spans(ch, parent_span_id, ctx, depth + 1)
child_parent_id(frame) == frame.parent_span_id

\* parent_span_id = push_span(node, parent_id, ctx, depth)
push_span ==
    /\ stack # <<>>
    /\ stack[Len(stack)].ch = 0
    /\ \E span_id \in SpanIds :
          LET frame == stack[Len(stack)]
          IN  /\ spans' = Append(spans,
                     [node |-> frame.node, parent_id |-> frame.parent_id,
                      span_id |-> span_id, result_depth |-> frame.depth])
              /\ stack' = [stack EXCEPT ![Len(stack)] =
                     [frame EXCEPT !.parent_span_id = span_id, !.ch = 1]]
    /\ UNCHANGED <<children, args_parent_id>>

\* for ch in node.children: the call for the next child begins.
spans_for ==
    /\ stack # <<>>
    /\ LET frame == stack[Len(stack)]
       IN  /\ frame.ch >= 1
           /\ frame.ch <= Len(children[frame.node])
           /\ stack' = Append([stack EXCEPT ![Len(stack)].ch = frame.ch + 1],
                              Frame(children[frame.node][frame.ch],
                                    child_parent_id(frame), frame.depth + 1))
    /\ UNCHANGED <<children, args_parent_id, spans>>

\* The for loop is over and the call returns.
spans_return ==
    /\ stack # <<>>
    /\ LET frame == stack[Len(stack)]
       IN  /\ frame.ch > Len(children[frame.node])
           /\ stack' = SubSeq(stack, 1, Len(stack) - 1)
    /\ UNCHANGED <<children, args_parent_id, spans>>

\* create_and_export_spans(root, args.parent_id, ctx, 0) on some tree.
InitSpans ==
    /\ no_flamegraphs = FALSE
    /\ target = 1
    /\ do_instrument = Metric_do_instrument
    /\ flamegraph_pid = <<>>
    /\ procs = <<>>
    /\ installed = {}
    /\ svg = 0
    /\ last = NoCall
    /\ prev = NoCall
    /\ MainIdle
    /\ ManyIdle
    /\ PathsIdle
    /\ CiIdle
    /\ children \in UNION {Trees(n) : n \in 1..MaxNodes}
    /\ args_parent_id \in 0..NumIds
    /\ stack = <<Frame(1, args_parent_id, 0)>>
    /\ spans = <<>>

NextSpans ==
    \/ push_span /\ UNCHANGED <<collector_vars, prev, main_vars, many_vars, path_vars, ci_vars>>
    \/ spans_for /\ UNCHANGED <<collector_vars, prev, main_vars, many_vars, path_vars, ci_vars>>
    \/ spans_return /\ UNCHANGED <<collector_vars, prev, main_vars, many_vars, path_vars, ci_vars>>

SpecSpans == InitSpans /\ [][NextSpans]_vars

\* ------------------------------------------------------------ the collector
\* The lifecycle state of the collector: Running while it holds a handle it
\* has not waited on, Idle otherwise.
CollectorState ==
    IF flamegraph_pid # <<>> /\ procs[flamegraph_pid[1]].waits = 0
    THEN "Running" ELSE "Idle"

\* The last call was end_iteration on an enabled collector that holds a handle.
EndedIteration ==
    /\ do_instrument
    /\ last.op = "end_iteration"
    /\ flamegraph_pid # <<>>

\* C1: a collector whose do_instrument is false issues no remote command,
\* detached process or file transfer in start_iteration, end_iteration or
\* install_flamegraph, whatever calls came before.
DisabledIssuesNothing ==
    (~do_instrument /\ last.op \in {"start_iteration", "end_iteration",
                                    "install_flamegraph"})
        => \A k \in DOMAIN last.cmds : last.cmds[k].fn \notin RemoteFns

\* A disabled collector has been through end_iteration after a profiler had
\* been started while it was still enabled.
DisabledWitness ==
    /\ ~do_instrument
    /\ last.op = "end_iteration"
    /\ Len(procs) > 0

\* C2: end_iteration of an enabled collector, in an iteration that
\* start_iteration opened, issues exactly one kill of perf to the target,
\* then waits for the handle of the detached profiler, then issues exactly
\* one pull of the artifact from the target, in that order.
StopSequenceOrdered ==
    EndedIteration =>
        /\ Len(last.cmds) = 3
        /\ last.cmds[1].fn = "run_ssh"
        /\ last.cmds[1].cmd = "kill perf"
        /\ last.cmds[1].to = {target}
        /\ last.cmds[2].fn = "wait"
        /\ last.cmds[2].h = flamegraph_pid[1]
        /\ last.cmds[3].fn = "scp_file"
        /\ last.cmds[3].to = {target}
        /\ ~last.raised

\* An iteration has been ended and its artifact fetched.
StopSequenceWitness ==
    /\ EndedIteration
    /\ last.pulled = flamegraph_pid[1]

\* C3: when the pull of end_iteration returns a non-zero status,
\* end_iteration does not raise and leaves the collector Idle and enabled,
\* its handle waited on and no profiler sampling, as after a successful pull.
FailedPullReturnsIdle ==
    (EndedIteration /\ \E k \in DOMAIN last.cmds :
                          last.cmds[k].fn = "scp_file" /\ last.cmds[k].bad # {})
        => /\ ~last.raised
           /\ CollectorState = "Idle"
           /\ procs[flamegraph_pid[1]].waits >= 1
           /\ Sampling(procs) = {}
           /\ last.pulled = 0

\* The pull failed although the profiler of the second iteration had
\* rendered its artifact.
FailedPullWitness ==
    /\ EndedIteration
    /\ last.cmds[3].bad = {target}
    /\ svg = flamegraph_pid[1]
    /\ Len(procs) = 2

\* C4 as claimed: remediation goes to exactly the machines whose probe
\* returned non-zero.
RemediationOnlyWhereProbeFailed ==
    last.op = "install_flamegraph"
        => \A k \in DOMAIN last.cmds :
              k > 1 => last.cmds[k].to = last.cmds[1].bad

\* C5: install_flamegraph called right after an install_flamegraph on the same
\* machines that returned all zeros (every probe 0, or every push 0) issues
\* the probe and nothing else.
BootstrapIdempotent ==
    (/\ last.op = "install_flamegraph"
     /\ prev.op = "install_flamegraph"
     /\ prev.machines = last.machines
     /\ prev.returned = "list"
     /\ prev.bad = {})
        => /\ Len(last.cmds) = 1
           /\ last.cmds[1].cmd = "stat flamegraph"

\* A second call after a first one that pushed the binary to every machine.
BootstrapIdempotentWitness ==
    /\ last.op = "install_flamegraph"
    /\ prev.op = "install_flamegraph"
    /\ prev.machines = last.machines
    /\ Cardinality(last.machines) >= 2
    /\ Len(prev.cmds) = 4
    /\ prev.bad = {}
    /\ Len(last.cmds) = 1

\* C6 as claimed: after an init whose push to the target failed the collector
\* is disabled.
FailedBootstrapDisables ==
    (last.op = "init" /\ \E k \in DOMAIN last.cmds :
                            /\ last.cmds[k].fn = "scp_in_parallel"
                            /\ target \in last.cmds[k].bad)
        => ~do_instrument

\* C7 as claimed: every handle is waited on at most once, and exactly once
\* by the time it is no longer the collector's current handle.
HandlesWaitedExactlyOnce ==
    \A h \in DOMAIN procs :
        /\ procs[h].waits <= 1
        /\ flamegraph_pid # <<h>> => procs[h].waits = 1

\* C8 as claimed: in every pass of the main block the workload thread is not
\* started before start_iteration has completed, and end_iteration is not
\* run before the workload thread has finished.
PhasesSequential ==
    /\ th # "unstarted" => pc \in {"sleep", "end", "join"}
    /\ pc = "join" => th = "finished"

\* ---------------------------------------------------------- the install loop
\* The handles of p that have been launched and not yet waited on.
Outstanding == {h \in DOMAIN p : p[h].waits = 0}

\* C9: the loop makes one pass per value of i, for i = 0, 1, 2, ... in
\* increasing order, never more than iteration_max passes, and it is over
\* only when all iteration_max passes have been made, whatever the exit
\* statuses of the installs.
FullPlanAttempted ==
    /\ Len(passes) <= iteration_max(batchsize)
    /\ \A k \in DOMAIN passes : passes[k] = k - 1
    /\ mi <= iteration_max(batchsize)
    /\ Len(passes) \in {mi, mi + 1}
    /\ mpc = "done" => /\ mi = iteration_max(batchsize)
                       /\ Len(passes) = iteration_max(batchsize)
                       /\ iteration_max(batchsize) * batchsize >= TotalCanisters
                       /\ (iteration_max(batchsize) - 1) * batchsize < TotalCanisters

\* The loop has run all its passes, several of them, although every install
\* of every pass exited with a non-zero status.
FullPlanWitness ==
    /\ mpc = "done"
    /\ Len(passes) >= 2
    /\ succeeded = 0

\* C10: within a pass all batchsize installs are launched before any is
\* waited on, no handle is waited on twice, and the counter update and the
\* next pass find every handle of the pass waited on exactly once; at most
\* batchsize handles are outstanding at any time.
BatchBarrier ==
    /\ Len(p) <= batchsize
    /\ unwaited = Cardinality(Outstanding)
    /\ unwaited <= batchsize
    /\ \A h \in DOMAIN p : p[h].waits <= 1
    /\ mpc = "launch" => Outstanding = DOMAIN p
    /\ mpc = "wait" => /\ Len(p) = batchsize
                       /\ Outstanding = {h \in DOMAIN p : h >= pos}
    /\ mpc \in {"update", "for", "done"} =>
          /\ unwaited = 0
          /\ \A h \in DOMAIN p : p[h].waits = 1 /\ p[h].state = "exited"
    /\ mpc \in {"update", "done"} => Len(p) = batchsize
    /\ num_canisters = base + mi * batchsize

\* A later pass has launched and awaited a batch of several installs and is
\* about to update the counter.
BatchBarrierWitness ==
    /\ mpc = "update"
    /\ mi >= 1
    /\ batchsize >= 2
    /\ Len(p) = batchsize
    /\ unwaited = 0

\* C14 as claimed: the artifact end_iteration fetches was rendered by the
\* profiler that the start_iteration of the same iteration started, never one
\* left on the target by an earlier iteration.
PulledArtifactIsFresh ==
    (last.op = "end_iteration" /\ last.pulled # 0)
        => last.pulled = flamegraph_pid[1]

\* C15 as claimed: between passes self.num_canisters is the count read at
\* construction plus the number of installs that exited with status 0.
CounterCountsInstalled ==
    mpc \in {"for", "done"} => num_canisters = base + succeeded

\* ------------------------------------------------- files on the controller
\* Two tasks are of the same (directory, target) pair.
SamePair(x, y) ==
    /\ FileOf(tasks[x].outdir) = FileOf(tasks[y].outdir)
    /\ tasks[x].target = tasks[y].target

\* C11: the stdout log, the stderr log and the svg of one task are three
\* different files, and tasks of different (iteration output directory,
\* target) pairs never write the same file; directories are non-empty names
\* and targets are addresses without "/".
LocalFilesPartitioned ==
    \A w1 \in written, w2 \in written :
        (w1 # w2 /\ FileOf(w1.path) = FileOf(w2.path))
            => (w1.by # w2.by /\ SamePair(w1.by, w2.by))

\* Both tasks have written their three files, into one directory for two
\* targets.
LocalFilesWitness ==
    /\ tasks # <<>>
    /\ tasks[1].outdir = tasks[2].outdir
    /\ tasks[1].target # tasks[2].target
    /\ tasks[1].stage = "ended"
    /\ tasks[2].stage = "ended"
    /\ Cardinality(written) = 6

\* -------------------------------------------------- Ci.get_last_hourly_jobs
\* C12 as claimed: every job of the returned list is of a monitored type,
\* carries the tag ic-prod-tests and was created within the last 1 hour and
\* 5 minutes before the call.
ReturnsOnlyRecentJobs ==
    ci_pc = "returned" =>
        \A x \in 1..Len(jobs) : collected(jobs[x]) /\ ~too_old(jobs[x])

\* -------------------------------------------------- create_and_export_spans
\* The parent of a node other than the root, and the depth of a node.
ParentOf(c) ==
    CHOOSE q \in DOMAIN children :
        \E z \in 1..Len(children[q]) : children[q][z] = c

RECURSIVE DepthOf(_)
DepthOf(c) == IF c = 1 THEN 0 ELSE 1 + DepthOf(ParentOf(c))

\* C13: no node has two spans and, once the call has returned, every node
\* has one; the root's span carries the parent_id argument and every other
\* span the span id generated for its parent node, whose span was sent
\* before it; result_depth is the node's depth.
SpansMirrorTree ==
    /\ \A a \in 1..Len(spans), b \in 1..Len(spans) :
          spans[a].node = spans[b].node => a = b
    /\ stack = <<>> => {spans[a].node : a \in 1..Len(spans)} = DOMAIN children
    /\ \A a \in 1..Len(spans) :
          /\ spans[a].result_depth = DepthOf(spans[a].node)
          /\ IF spans[a].node = 1
             THEN spans[a].parent_id = args_parent_id
             ELSE \E b \in 1..(a - 1) :
                     /\ spans[b].node = ParentOf(spans[a].node)
                     /\ spans[a].parent_id = spans[b].span_id

\* The call has returned on a tree of MaxNodes nodes in which a grandchild
\* of the root is sent before a child of the root numbered below it.
SpansMirrorWitness ==
    /\ stack = <<>>
    /\ Len(spans) = MaxNodes
    /\ \E a \in 1..Len(spans), b \in 1..Len(spans) :
          /\ a < b
          /\ spans[a].result_depth = 2
          /\ spans[b].result_depth = 1
          /\ spans[b].node < spans[a].node

====
